---- MODULE Spec2Model ----
(***************************************************************************)
(* Model of substrateinterface/storage.py: the StorageKey descriptor, its  *)
(* two factory methods, generate(), to_hex(), decode_key_data() and        *)
(* decode_scale_value().                                                   *)
(*                                                                         *)
(* Representation.                                                         *)
(*   bytes        a sequence of numbers in 0..255                          *)
(*   str (hex)    a sequence of character codes: the hex digits '0'..'f'   *)
(*                are 0..15 and the letter 'x' is 16, so "0x2a" is         *)
(*                <<0, 16, 2, 10>>                                         *)
(*   None / x     the empty tuple <<>> / the 1-tuple <<x>>                 *)
(*   type def     <<"U8">>, <<"U16">>, <<"Tuple", items>>,                 *)
(*                <<"Option", t>>, <<"Array", n>>  (Array of U8)           *)
(*   parameter    <<"native", n>> or <<"ScaleBytes", bytes>>               *)
(***************************************************************************)
EXTENDS Integers, Sequences, FiniteSets, TLC

VARIABLES
    metadata,                   \* the metadata snapshot (read only)
    created,                    \* a factory method has returned the object
    origin,                     \* which factory method built the object
    pallet, storage_function, params, params_encoded, data,
    value_scale_type, param_scale_types, param_hashers,
    metadata_storage_function,  \* the StorageKey fields
    result,                     \* what the last call returned or raised
    generated                   \* a generate() call has completed on the object

vars == <<metadata, created, origin, pallet, storage_function, params,
          params_encoded, data, value_scale_type, param_scale_types,
          param_hashers, metadata_storage_function, result, generated>>

fields == <<pallet, storage_function, params, params_encoded, data,
            value_scale_type, param_scale_types, param_hashers,
            metadata_storage_function>>

(* ----------------------------- bounds ---------------------------------- *)
MaxParams == 2
MaxDeclared == 2

(* ------------------------- Python's None ------------------------------- *)
None == <<>>

Some(x) == <<x>>

IsNone(o) == Len(o) = 0

Get(o) == o[1]

(* --------------------------- byte helpers ------------------------------ *)
RECURSIVE SumBytes(_)
SumBytes(b) == IF Len(b) = 0 THEN 0 ELSE b[1] + SumBytes(Tail(b))

Drop(s, n) == IF n >= Len(s) THEN <<>> ELSE SubSeq(s, n + 1, Len(s))

Take(s, n) == IF n >= Len(s) THEN s ELSE SubSeq(s, 1, n)

\* str.encode() of the names the metadata uses (UTF-8 of ASCII text)
StrEncode(s) ==
    CASE s = "System"  -> <<83, 121, 115, 116, 101, 109>>
      [] s = "Sys"     -> <<83, 121, 115>>
      [] s = "Account" -> <<65, 99, 99, 111, 117, 110, 116>>
      [] s = "NoSuch"  -> <<78, 111, 83, 117, 99, 104>>
      [] s = "NoFn"    -> <<78, 111, 70, 110>>

(* ----------------- hash primitives (utils/hasher.py) ------------------- *)
\* A digest of n bytes that depends on every byte of the input and on its
\* length; `salt` tells the hash families apart.
Digest(salt, n, input) ==
    LET seed == (salt + 31 * SumBytes(input) + 13 * Len(input)) % 256
    IN  [i \in 1..n |-> (seed + 7 * i) % 256]

xxh128(b) == Digest(1, 16, b)

blake2_256(b) == Digest(2, 32, b)

blake2_128(b) == Digest(3, 16, b)

blake2_128_concat(b) == Digest(3, 16, b) \o b

two_x64_concat(b) == Digest(4, 8, b) \o b

identity(b) == b

concat_hash_len(key_hasher) ==
    CASE key_hasher = "Blake2_128Concat" -> 16
      [] key_hasher = "Twox64Concat" -> 8
      [] OTHER -> 0

(* --------------------- hex strings and ScaleBytes ---------------------- *)
\* bytes.hex(): two digits for every byte, the high one first
HexDigits(b) ==
    LET bytes == b
    IN  [i \in 1..(2 * Len(bytes)) |->
            IF i % 2 = 1 THEN bytes[(i + 1) \div 2] \div 16 ELSE bytes[i \div 2] % 16]

\* f'0x{data.hex()}'
HexOf(b) == <<0, 16>> \o HexDigits(b)

\* the bytes that an even number of hex digits spell
UnhexDigits(d) ==
    LET digits == d
    IN  [i \in 1..(Len(digits) \div 2) |-> 16 * digits[2 * i - 1] + digits[2 * i]]

\* ScaleBytes(str): the text must start with "0x" and hold whole bytes
HexWellFormed(s) ==
    /\ Len(s) >= 2
    /\ s[1] = 0
    /\ s[2] = 16
    /\ Len(s) % 2 = 0
    /\ \A i \in 3..Len(s) : s[i] < 16

ScaleBytesOfStr(s) == UnhexDigits(Drop(s, 2))

(* ------------------------ the SCALE codec ------------------------------ *)
U8 == <<"U8">>

U16 == <<"U16">>

Tuple(items) == <<"Tuple", items>>

Option(t) == <<"Option", t>>

Array(n) == <<"Array", n>>

\* type_def.new().encode(value): the bytes, or None when the value does not fit
Encode(t, n) ==
    CASE t[1] = "U8"  -> IF n \in 0..255 THEN Some(<<n>>) ELSE None
      [] t[1] = "U16" -> IF n \in 0..65535 THEN Some(<<n % 256, n \div 256>>) ELSE None
      [] OTHER -> None

\* obj.decode(bytes): [ok, value, rest]; ok is FALSE when bytes run out or the
\* encoding is malformed
RECURSIVE DecodeAt(_, _)
DecodeAt(t, b) ==
    CASE t[1] = "U8" ->
           IF Len(b) < 1 THEN [ok |-> FALSE, value |-> None, rest |-> b]
           ELSE [ok |-> TRUE, value |-> <<"int", b[1]>>, rest |-> Drop(b, 1)]
      [] t[1] = "U16" ->
           IF Len(b) < 2 THEN [ok |-> FALSE, value |-> None, rest |-> b]
           ELSE [ok |-> TRUE, value |-> <<"int", b[1] + 256 * b[2]>>, rest |-> Drop(b, 2)]
      [] t[1] = "Array" ->
           IF Len(b) < t[2] THEN [ok |-> FALSE, value |-> None, rest |-> b]
           ELSE [ok |-> TRUE, value |-> <<"bytes", Take(b, t[2])>>, rest |-> Drop(b, t[2])]
      [] t[1] = "Option" ->
           IF Len(b) < 1 THEN [ok |-> FALSE, value |-> None, rest |-> b]
           ELSE IF b[1] = 0 THEN [ok |-> TRUE, value |-> <<"None">>, rest |-> Drop(b, 1)]
           ELSE IF b[1] = 1 THEN DecodeAt(t[2], Drop(b, 1))
           ELSE [ok |-> FALSE, value |-> None, rest |-> b]
      [] t[1] = "Tuple" ->
           IF Len(t[2]) = 0 THEN [ok |-> TRUE, value |-> <<"tuple", <<>>>>, rest |-> b]
           ELSE LET head == DecodeAt(t[2][1], b)
                IN  IF ~head.ok THEN [ok |-> FALSE, value |-> None, rest |-> b]
                    ELSE LET more == DecodeAt(Tuple(Tail(t[2])), head.rest)
                         IN  IF ~more.ok THEN [ok |-> FALSE, value |-> None, rest |-> b]
                             ELSE [ok |-> TRUE,
                                   value |-> <<"tuple", <<head.value>> \o more.value[2]>>,
                                   rest |-> more.rest]

(* -------------------------- the metadata ------------------------------- *)
\* metadata.get_metadata_pallet(name): the pallet, or None
get_metadata_pallet(md, name) ==
    IF ~IsNone(name) /\ Get(name) = md.pallet_name THEN Some(md) ELSE None

\* metadata_pallet.get_storage_function(name): the storage function, or None
get_storage_function(md, name) ==
    IF ~IsNone(name) /\ Get(name) = md.function_name THEN Some(md.function) ELSE None

\* what an operation reports: the returned value, or the exception raised
\* (`args` holds the arguments of the call)
Returned(op, v) ==
    [op |-> op, args |-> <<>>, raised |-> FALSE, exc |-> "", msg |-> "", value |-> v]

Raised(op, exc, msg) ==
    [op |-> op, args |-> <<>>, raised |-> TRUE, exc |-> exc, msg |-> msg,
     value |-> None]

PalletNotFound(op) == Raised(op, "StorageFunctionNotFound", "Pallet not found")

\* (a bug: an unknown storage function is reported as an unknown pallet)
FunctionReportedAsPallet(op) ==
    Raised(op, "StorageFunctionNotFound", "Pallet not found")

FunctionNotFound(op) ==
    Raised(op, "StorageFunctionNotFound", "Storage function not found")

(* ----------------------------- __init__ -------------------------------- *)
NewStorageKey(p, f, ps, d, vt, pts) ==
    [pallet |-> p, storage_function |-> f, params |-> ps,
     params_encoded |-> <<>>, data |-> d, value_scale_type |-> vt,
     param_scale_types |-> pts, param_hashers |-> None,
     metadata_storage_function |-> None]

(* ----------------------------- generate -------------------------------- *)
\* value type: a primitive name is resolved by get_type_def_primitive, a
\* numeric id by get_scale_type_def; both give the registered type def
ResolveValueType(value_type_id) == value_type_id[2]

\* parameter types: none declared, a tuple of types, or one type
ResolveParamTypes(params_type_id) ==
    IF IsNone(params_type_id) THEN <<>>
    ELSE IF Get(params_type_id)[1] = "Tuple" THEN Get(params_type_id)[2]
    ELSE <<Get(params_type_id)>>

\* xxh128(storage prefix) + xxh128(storage function name)
StorageHashPrefix(prefix, function_name) ==
    xxh128(StrEncode(prefix)) \o xxh128(StrEncode(function_name))

\* (a bug: the list keeps the parameters encoded by earlier calls)
KeptParamsEncoded(old) == old

\* generate() starts the list of encoded parameters afresh
FreshParamsEncoded(old) == <<>>

\* the first loop: every parameter as ScaleBytes.  A native parameter is
\* encoded through the parameter type declared at its index.
RECURSIVE EncodeParams(_, _, _, _)
EncodeParams(ps, types, idx, acc) ==
    IF idx > Len(ps) THEN [raised |-> FALSE, exc |-> "", msg |-> "", encoded |-> acc]
    ELSE IF ps[idx][1] = "ScaleBytes"
         THEN EncodeParams(ps, types, idx + 1, Append(acc, ps[idx][2]))
    ELSE IF idx > Len(types)
         THEN [raised |-> TRUE, exc |-> "IndexError",
               msg |-> "tuple index out of range", encoded |-> acc]
    ELSE LET e == Encode(types[idx], ps[idx][2])
         IN  IF IsNone(e)
             THEN [raised |-> TRUE, exc |-> "ScaleEncodeException",
                   msg |-> "value out of range", encoded |-> acc]
             ELSE EncodeParams(ps, types, idx + 1, Append(acc, Get(e)))

\* (a bug: a parameter without a hasher gets the default one)
HasherAtOrDefault(hashers, idx) ==
    IF idx <= Len(hashers) THEN Some(hashers[idx]) ELSE Some("")

\* the hasher of parameter idx; None when the list has no such index
HasherAt(hashers, idx) ==
    IF idx <= Len(hashers) THEN Some(hashers[idx]) ELSE None

\* (a bug: every name the chain does not know is hashed as Twox128)
LenientHasher(param_hasher) ==
    IF param_hasher \in {"Blake2_256", "Blake2_128", "Blake2_128Concat",
                         "Twox64Concat", "Identity"}
    THEN param_hasher ELSE "Twox128"

\* an empty hasher slot means Twox128
DefaultHasher(param_hasher) ==
    IF param_hasher = "" THEN "Twox128" ELSE param_hasher

Recognized == {"Blake2_256", "Blake2_128", "Blake2_128Concat", "Twox128",
               "Twox64Concat", "Identity"}

\* (a bug: Twox64Concat drops the parameter bytes it must append)
ApplyHasherNoConcat(param_hasher, params_key) ==
    CASE param_hasher = "Blake2_256"       -> Some(blake2_256(params_key))
      [] param_hasher = "Blake2_128"       -> Some(blake2_128(params_key))
      [] param_hasher = "Blake2_128Concat" -> Some(blake2_128_concat(params_key))
      [] param_hasher = "Twox128"          -> Some(xxh128(params_key))
      [] param_hasher = "Twox64Concat"     -> Some(Digest(4, 8, params_key))
      [] param_hasher = "Identity"         -> Some(identity(params_key))
      [] OTHER                             -> None

\* the if/elif chain over the hasher names
ApplyHasher(param_hasher, params_key) ==
    CASE param_hasher = "Blake2_256"       -> Some(blake2_256(params_key))
      [] param_hasher = "Blake2_128"       -> Some(blake2_128(params_key))
      [] param_hasher = "Blake2_128Concat" -> Some(blake2_128_concat(params_key))
      [] param_hasher = "Twox128"          -> Some(xxh128(params_key))
      [] param_hasher = "Twox64Concat"     -> Some(two_x64_concat(params_key))
      [] param_hasher = "Identity"         -> Some(identity(params_key))
      [] OTHER                             -> None

\* the second loop: hash every encoded parameter onto the storage hash
RECURSIVE HashParams(_, _, _, _)
HashParams(encoded, hashers, idx, storage_hash) ==
    IF idx > Len(encoded)
    THEN [raised |-> FALSE, exc |-> "", msg |-> "", storage_hash |-> storage_hash]
    ELSE LET h == HasherAt(hashers, idx)
         IN  IF IsNone(h)
             THEN [raised |-> TRUE, exc |-> "ValueError",
                   msg |-> "No hasher found for param", storage_hash |-> storage_hash]
             ELSE LET seg == ApplyHasher(DefaultHasher(Get(h)), encoded[idx])
                  IN  IF IsNone(seg)
                      THEN [raised |-> TRUE, exc |-> "ValueError",
                            msg |-> "Unknown storage hasher",
                            storage_hash |-> storage_hash]
                      ELSE HashParams(encoded, hashers, idx + 1,
                                      storage_hash \o Get(seg))

\* (a bug: the new key is appended to the key bytes already there)
StoreKeyAppend(self, storage_hash) ==
    [self EXCEPT !.data = IF IsNone(self.data) THEN Some(storage_hash)
                          ELSE Some(Get(self.data) \o storage_hash)]

\* self.data = storage_hash
StoreKey(self, storage_hash) == [self EXCEPT !.data = Some(storage_hash)]

\* generate(): the object's fields after the call, and what the call reports
Generate(self, md) ==
    LET metadata_pallet == get_metadata_pallet(md, self.pallet)
    IN
    IF IsNone(metadata_pallet)
    THEN [self |-> self, result |-> PalletNotFound("generate")]
    ELSE
    LET msf   == get_storage_function(Get(metadata_pallet), self.storage_function)
        self1 == [self EXCEPT !.metadata_storage_function = msf]
    IN
    IF IsNone(msf)
    THEN [self |-> self1, result |-> FunctionNotFound("generate")]
    ELSE
    LET self2 == [self1 EXCEPT
                    !.value_scale_type = Some(ResolveValueType(Get(msf).value_type_id)),
                    !.param_scale_types = Some(ResolveParamTypes(Get(msf).params_type_id)),
                    !.param_hashers = Some(Get(msf).hashers),
                    !.params_encoded = FreshParamsEncoded(self.params_encoded)]
        storage_hash == StorageHashPrefix(Get(metadata_pallet).prefix,
                                          Get(self.storage_function))
    IN
    IF IsNone(self.params) \/ Len(Get(self.params)) = 0
    THEN [self |-> StoreKey(self2, storage_hash),
          result |-> Returned("generate", storage_hash)]
    ELSE
    LET enc   == EncodeParams(Get(self.params), Get(self2.param_scale_types), 1,
                              self2.params_encoded)
        self3 == [self2 EXCEPT !.params_encoded = enc.encoded]
    IN
    IF enc.raised
    THEN [self |-> self3, result |-> Raised("generate", enc.exc, enc.msg)]
    ELSE
    LET hashed == HashParams(self3.params_encoded, Get(self3.param_hashers), 1,
                             storage_hash)
    IN
    IF hashed.raised
    THEN [self |-> self3, result |-> Raised("generate", hashed.exc, hashed.msg)]
    ELSE [self |-> StoreKey(self3, hashed.storage_hash),
          result |-> Returned("generate", hashed.storage_hash)]

(* ----------------------------- to_hex ---------------------------------- *)
\* None when the key bytes are None or empty
to_hex(self) ==
    IF IsNone(self.data) \/ Len(Get(self.data)) = 0 THEN None
    ELSE Some(HexOf(Get(self.data)))

(* ------------------ create_key_type_def, decode_key_data --------------- *)
\* Tuple(Array(U8, concat_hash_len(hasher n)), type n, ...) for the declared
\* parameters from param_count on; None stands for the IndexError of a
\* parameter type that has no hasher
\* (a bug: the parameter type is put before the block of hash bytes)
RECURSIVE KeyItemsTypeFirst(_, _, _)
KeyItemsTypeFirst(types, hashers, n) ==
    IF n > Len(types) THEN Some(<<>>)
    ELSE IF n > Len(hashers) THEN None
    ELSE LET more == KeyItemsTypeFirst(types, hashers, n + 1)
         IN  IF IsNone(more) THEN None
             ELSE Some(<<types[n], Array(concat_hash_len(hashers[n]))>> \o Get(more))

RECURSIVE KeyItems(_, _, _)
KeyItems(types, hashers, n) ==
    IF n > Len(types) THEN Some(<<>>)
    ELSE IF n > Len(hashers) THEN None
    ELSE LET more == KeyItems(types, hashers, n + 1)
         IN  IF IsNone(more) THEN None
             ELSE Some(<<Array(concat_hash_len(hashers[n])), types[n]>> \o Get(more))

create_key_type_def(self, param_count) ==
    LET items == KeyItems(Get(self.param_scale_types), Get(self.param_hashers),
                          param_count + 1)
    IN  IF IsNone(items) THEN None ELSE Some(Tuple(Get(items)))

decode_key_data(self, hex_data, param_count) ==
    IF IsNone(self.param_scale_types)
    THEN Raised("decode_key_data", "TypeError", "len() of None")
    ELSE
    LET key_type == create_key_type_def(self, param_count)
    IN
    IF IsNone(key_type)
    THEN Raised("decode_key_data", "IndexError", "list index out of range")
    ELSE IF IsNone(to_hex(self))
    THEN Raised("decode_key_data", "TypeError", "len() of None")
    ELSE
    LET tail == <<0, 16>> \o Drop(hex_data, Len(Get(to_hex(self))))
    IN
    IF ~HexWellFormed(tail)
    THEN Raised("decode_key_data", "ValueError", "not a hex string")
    ELSE
    LET d == DecodeAt(Get(key_type), ScaleBytesOfStr(tail))
    IN  IF ~d.ok
        THEN Raised("decode_key_data", "RemainingScaleBytesNotEmptyException",
                    "no more bytes")
        ELSE Returned("decode_key_data", d.value)

(* -------------------------- decode_scale_value ------------------------- *)
\* (a bug: falling back to the declared default counts as a found result)
ResultFoundOrDefault(data_given, modifier) == data_given \/ modifier = "Default"

\* result_found: whether the caller passed data
ResultFound(data_given, modifier) == data_given

\* (a bug: the default of an optional function is not decoded as an Option)
ChangeScaleTypePlain(data_given, modifier, value_type) == value_type

\* the type the bytes are decoded as
ChangeScaleType(data_given, modifier, value_type) ==
    IF data_given THEN value_type
    ELSE IF modifier = "Default" THEN value_type
    ELSE Option(value_type)

\* `arg` is None, <<"str", text>> or <<"ScaleBytes", bytes>>
decode_scale_value(self, arg) ==
    IF ~IsNone(arg) /\ arg[1] = "str" /\ ~HexWellFormed(arg[2])
    THEN Raised("decode_scale_value", "ValueError", "not a hex string")
    ELSE IF IsNone(arg) /\ IsNone(self.metadata_storage_function)
    THEN Raised("decode_scale_value", "AttributeError", "None has no attribute value")
    ELSE IF IsNone(self.value_scale_type)
    THEN Raised("decode_scale_value", "AttributeError", "None has no attribute new")
    ELSE
    LET given    == ~IsNone(arg)
        modifier == IF given THEN "" ELSE Get(self.metadata_storage_function).modifier
        bytes    == IF ~given THEN Get(self.metadata_storage_function).default
                    ELSE IF arg[1] = "str" THEN ScaleBytesOfStr(arg[2])
                    ELSE arg[2]
        d        == DecodeAt(ChangeScaleType(given, modifier, Get(self.value_scale_type)),
                             bytes)
    IN  IF ~d.ok
        THEN Raised("decode_scale_value", "RemainingScaleBytesNotEmptyException",
                    "no more bytes")
        ELSE Returned("decode_scale_value",
                      [value |-> d.value,
                       result_found |-> ResultFound(given, modifier)])

(* --------------------------- create_from_data -------------------------- *)
\* (a bug: the value type is never looked up when the object is built)
NeverLookup(hint, p, f) == FALSE

\* `if not value_scale_type and pallet and storage_function`
NeedsLookup(hint, p, f) == IsNone(hint) /\ ~IsNone(p) /\ ~IsNone(f)

\* the value type a descriptor built from raw key bytes starts with: the
\* caller's hint, else the type of (pallet, storage function) in the metadata.
\* A type string stands for the type def it names.
create_from_data(d, md, hint, p, f) ==
    IF NeedsLookup(hint, p, f)
    THEN LET metadata_pallet == get_metadata_pallet(md, p)
         IN
         IF IsNone(metadata_pallet)
         THEN [built |-> FALSE, self |-> NewStorageKey(None, None, None, None, None, None),
               result |-> PalletNotFound("create_from_data")]
         ELSE
         LET storage_item == get_storage_function(Get(metadata_pallet), f)
         IN
         IF IsNone(storage_item)
         THEN [built |-> FALSE,
               self |-> NewStorageKey(None, None, None, None, None, None),
               result |-> FunctionNotFound("create_from_data")]
         ELSE [built |-> TRUE,
               self |-> NewStorageKey(p, f, None, d,
                           Some(ResolveValueType(Get(storage_item).value_type_id)), None),
               result |-> Returned("create_from_data", None)]
    ELSE [built |-> TRUE, self |-> NewStorageKey(p, f, None, d, hint, None),
          result |-> Returned("create_from_data", None)]

(* ---------------------- create_from_storage_function ------------------- *)
create_from_storage_function(p, f, ps, md) ==
    LET g == Generate(NewStorageKey(p, f, ps, None, None, None), md)
    IN  [built |-> ~g.result.raised, self |-> g.self,
         result |-> [g.result EXCEPT !.op = "create_from_storage_function"]]

(* ------------------------------ inputs --------------------------------- *)
HasherNames == Recognized \cup {"", "Bogus"}

HasherLists == UNION {[1..n -> HasherNames] : n \in 0..MaxDeclared}

\* n parameter types, alternating from `first`
TypeList(first, n) ==
    [i \in 1..n |-> IF i % 2 = 1 THEN first ELSE IF first = U8 THEN U16 ELSE U8]

\* the declared parameter type: none, one type, or a tuple of types
ParamTypeId(types) ==
    IF Len(types) = 0 THEN None
    ELSE IF Len(types) = 1 THEN Some(types[1])
    ELSE Some(Tuple(types))

TypeLists == {TypeList(first, n) : first \in {U8, U16}, n \in 0..MaxDeclared}

MetadataOf(fn) ==
    [pallet_name |-> "System", prefix |-> "Sys", function_name |-> "Account",
     function |-> fn]

\* every hasher list with every list of parameter types, aligned or not
GenerateFunctions ==
    {[value_type_id |-> <<"str", U8>>, params_type_id |-> ParamTypeId(ts),
      hashers |-> hs, modifier |-> "Default", default |-> <<42>>] :
        hs \in HasherLists, ts \in TypeLists}

\* every hasher list with as many parameter types as hashers
KeyTailFunctions ==
    {[value_type_id |-> <<"str", U8>>,
      params_type_id |-> ParamTypeId(TypeList(first, Len(hs))),
      hashers |-> hs, modifier |-> "Default", default |-> <<42>>] :
        hs \in HasherLists, first \in {U8, U16}}

\* plain values and one-key maps with every modifier, default and value type
ValueFunctions ==
    {[value_type_id |-> vt, params_type_id |-> ParamTypeId(TypeList(U8, Len(hs))),
      hashers |-> hs, modifier |-> m, default |-> d] :
        vt \in {<<"str", U8>>, <<"id", U16>>},
        hs \in {<<>>, <<"Twox64Concat">>},
        m \in {"Default", "Optional"},
        d \in {<<0>>, <<42>>, <<1, 42>>}}

ParamValues == {<<"native", 5>>, <<"ScaleBytes", <<9>>>>}

ParamLists == UNION {[1..n -> ParamValues] : n \in 0..MaxParams}

\* (pallet, storage function, params) as create_from_storage_function takes
\* them: the metadata's storage function with every parameter list, and
\* names the metadata does not hold with some of them
CreateInputs ==
    {<<Some("System"), Some("Account"), ps>> :
        ps \in {None} \cup {Some(l) : l \in ParamLists}}
    \cup
    {<<a[1], a[2], ps>> :
        a \in {<<Some("NoSuch"), Some("Account")>>, <<Some("System"), Some("NoFn")>>,
               <<Some("NoSuch"), Some("NoFn")>>},
        ps \in {None, Some(<<>>), Some(<<<<"native", 5>>>>)}}

\* the key generate() computes for a parameter list, or None when it raises
KeyOf(md, ps) ==
    LET g == Generate(NewStorageKey(Some(md.pallet_name), Some(md.function_name),
                                    Some(ps), None, None, None), md)
    IN  IF g.result.raised THEN None ELSE Some(g.result.value)

IsPrefix(a, b) == Len(a) <= Len(b) /\ SubSeq(b, 1, Len(a)) = a

\* the parameter lists of full length that start with the parameters `ps`
Completions(md, ps) ==
    LET n == Len(ResolveParamTypes(md.function.params_type_id))
    IN  {l \in [1..n -> ParamValues] : IsNone(ps) \/ IsPrefix(Get(ps), l)}

\* what a caller passes as hex_data: the keys of stored entries, one for each
\* full parameter list that continues the descriptor's own parameters, and a
\* text that is too short
HexInputs(self, md) ==
    {<<0, 16>>} \cup
    {HexOf(Get(k)) : k \in {KeyOf(md, l) : l \in Completions(md, self.params)} \ {None}}

\* param_count: the number of parameters the descriptor was built with
ParamCounts(self) == {IF IsNone(self.params) THEN 0 ELSE Len(Get(self.params))}

ValueInputs ==
    {None, <<"ScaleBytes", <<7>>>>, <<"str", <<0, 16, 0, 11, 0, 0>>>>,
     <<"str", <<0, 16, 1>>>>}

DataInputs == {None, Some(<<1, 2>>)}

\* (value type hint, pallet, storage function) as create_from_data takes them
AddressInputs ==
    {<<None, None, None>>, <<Some(U16), None, None>>,
     <<Some(U16), Some("System"), Some("Account")>>,
     <<Some(U16), Some("System"), Some("NoFn")>>,
     <<Some(U16), Some("NoSuch"), Some("Account")>>,
     <<None, Some("System"), Some("Account")>>,
     <<None, Some("NoSuch"), Some("Account")>>,
     <<None, Some("System"), Some("NoFn")>>,
     <<None, Some("System"), None>>}

(* ------------------------------ the state ------------------------------ *)
Self ==
    [pallet |-> pallet, storage_function |-> storage_function, params |-> params,
     params_encoded |-> params_encoded, data |-> data,
     value_scale_type |-> value_scale_type, param_scale_types |-> param_scale_types,
     param_hashers |-> param_hashers,
     metadata_storage_function |-> metadata_storage_function]

SetSelf(o) ==
    /\ pallet' = o.pallet
    /\ storage_function' = o.storage_function
    /\ params' = o.params
    /\ params_encoded' = o.params_encoded
    /\ data' = o.data
    /\ value_scale_type' = o.value_scale_type
    /\ param_scale_types' = o.param_scale_types
    /\ param_hashers' = o.param_hashers
    /\ metadata_storage_function' = o.metadata_storage_function

\* no object yet
Blank ==
    /\ created = FALSE
    /\ origin = "none"
    /\ pallet = None
    /\ storage_function = None
    /\ params = None
    /\ params_encoded = <<>>
    /\ data = None
    /\ value_scale_type = None
    /\ param_scale_types = None
    /\ param_hashers = None
    /\ metadata_storage_function = None
    /\ result = Returned("none", None)
    /\ generated = FALSE

Init == metadata \in {MetadataOf(fn) : fn \in ValueFunctions} /\ Blank

InitGenerate == metadata \in {MetadataOf(fn) : fn \in GenerateFunctions} /\ Blank

InitKeyTail == metadata \in {MetadataOf(fn) : fn \in KeyTailFunctions} /\ Blank

\* a behaviour is the life of one object: a factory method is called first.
\* When create_from_storage_function raises, the object it was building is
\* lost to the caller (created stays FALSE); the fields show what it held.
CreateFromStorageFunction ==
    /\ origin = "none"
    /\ \E a \in CreateInputs :
         \E c \in {create_from_storage_function(a[1], a[2], a[3], metadata)} :
             /\ SetSelf(c.self)
             /\ created' = c.built
             /\ generated' = c.built
             /\ result' = c.result
    /\ origin' = "create_from_storage_function"
    /\ UNCHANGED metadata

CreateFromData ==
    /\ origin = "none"
    /\ \E d \in DataInputs, a \in AddressInputs :
         \E c \in {create_from_data(d, metadata, a[1], a[2], a[3])} :
             /\ SetSelf(c.self)
             /\ created' = c.built
             /\ result' = [c.result EXCEPT !.args = <<d, a[1], a[2], a[3]>>]
    /\ origin' = "create_from_data"
    /\ generated' = FALSE
    /\ UNCHANGED metadata

GenerateCall ==
    /\ created
    /\ \E g \in {Generate(Self, metadata)} :
           /\ SetSelf(g.self)
           /\ result' = g.result
           /\ generated' = (generated \/ ~g.result.raised)
    /\ UNCHANGED <<metadata, created, origin>>

ToHex ==
    /\ created
    /\ result' = Returned("to_hex", to_hex(Self))
    /\ UNCHANGED <<metadata, created, origin, fields, generated>>

DecodeKeyData ==
    /\ created
    /\ \E hex_data \in HexInputs(Self, metadata), param_count \in ParamCounts(Self) :
         result' = [decode_key_data(Self, hex_data, param_count)
                      EXCEPT !.args = <<hex_data, param_count>>]
    /\ UNCHANGED <<metadata, created, origin, fields, generated>>

DecodeScaleValue ==
    /\ created
    /\ \E arg \in ValueInputs :
         result' = [decode_scale_value(Self, arg)
                      EXCEPT !.args = <<arg>>]
    /\ UNCHANGED <<metadata, created, origin, fields, generated>>

Next ==
    \/ CreateFromStorageFunction
    \/ CreateFromData
    \/ GenerateCall
    \/ ToHex
    \/ DecodeKeyData
    \/ DecodeScaleValue

NextGenerate ==
    \/ CreateFromStorageFunction
    \/ GenerateCall

NextKeyTail ==
    \/ CreateFromStorageFunction
    \/ DecodeKeyData

\* the whole life of a descriptor, over plain values and one-key maps
Spec == Init /\ [][Next]_vars

\* key generation over every list of declared hashers and parameter types
SpecGenerate == InitGenerate /\ [][NextGenerate]_vars

\* key generation and key-tail decoding over every list of declared hashers
SpecKeyTail == InitKeyTail /\ [][NextKeyTail]_vars

(* ======================= key generation claims ======================== *)
GenerateReported == result.op \in {"generate", "create_from_storage_function"}

\* pallet and storage function are the ones the metadata holds
Resolved ==
    /\ pallet = Some(metadata.pallet_name)
    /\ storage_function = Some(metadata.function_name)

Supplied == IF IsNone(params) THEN <<>> ELSE Get(params)

DeclaredHashers == metadata.function.hashers

DeclaredTypes ==
    LET t == metadata.function.params_type_id
    IN  IF t = None THEN <<>> ELSE IF t[1][1] = "Tuple" THEN t[1][2] ELSE t

Min(a, b) == IF a < b THEN a ELSE b

RECURSIVE Flatten(_)
Flatten(ss) == IF Len(ss) = 0 THEN <<>> ELSE ss[1] \o Flatten(Tail(ss))

\* the encoded bytes of parameter i of the list ps
EncodedOf(ps, i) ==
    IF ps[i][1] = "ScaleBytes" THEN ps[i][2]
    ELSE IF DeclaredTypes[i] = U8 THEN <<ps[i][2]>>
    ELSE <<ps[i][2] % 256, ps[i][2] \div 256>>

EncodedParam(i) == EncodedOf(Supplied, i)

\* the hasher transform table: the output for a declared hash kind
TableOutput(kind, input) ==
    CASE kind \in {"Twox128", ""}  -> Digest(1, 16, input)
      [] kind = "Blake2_256"       -> Digest(2, 32, input)
      [] kind = "Blake2_128"       -> Digest(3, 16, input)
      [] kind = "Blake2_128Concat" -> Digest(3, 16, input) \o input
      [] kind = "Twox64Concat"     -> Digest(4, 8, input) \o input
      [] kind = "Identity"         -> input

ExpectedKeyOf(ps) ==
    Digest(1, 16, StrEncode(metadata.prefix))
      \o Digest(1, 16, StrEncode(metadata.function_name))
      \o Flatten([i \in 1..Len(ps) |->
                    TableOutput(DeclaredHashers[i], EncodedOf(ps, i))])

ExpectedKey == ExpectedKeyOf(Supplied)

Unrecognized(h) == h \notin Recognized \cup {""}

\* every supplied parameter is pre-encoded or has a declared type to encode it
Encodable ==
    \A i \in 1..Len(Supplied) :
        Supplied[i][1] = "ScaleBytes" \/ i <= Len(DeclaredTypes)

UnknownHasher ==
    result.raised /\ result.exc = "ValueError" /\ result.msg = "Unknown storage hasher"

MissingHasher ==
    result.raised /\ result.exc = "ValueError"
                  /\ result.msg = "No hasher found for param"

\* C1: after every successful generate() the key bytes are xxh128(storage
\* prefix), then xxh128(storage function name), then for each supplied
\* parameter, in order, the output of its declared hasher on its encoded
\* bytes, and nothing else; with no parameters the key has 32 bytes, and with
\* two parameters under a 128-bit non-concatenating hasher and Twox64Concat it
\* has 32 + 16 + 8 + len(encoded second parameter) bytes.
C1_KeyLayout ==
    (GenerateReported /\ ~result.raised) =>
        /\ data = Some(ExpectedKey)
        /\ result.value = ExpectedKey
        /\ Len(Supplied) = 0 => Len(Get(data)) = 32
        /\ ( /\ Len(Supplied) = 2
             /\ DeclaredHashers[1] \in {"Twox128", "Blake2_128"}
             /\ DeclaredHashers[2] = "Twox64Concat" )
           => Len(Get(data)) = 32 + 16 + 8 + Len(EncodedParam(2))

C1_Witness ==
    /\ GenerateReported
    /\ ~result.raised
    /\ Len(Supplied) = 2
    /\ Supplied[2][1] = "native"
    /\ param_hashers = Some(<<"Twox128", "Twox64Concat">>)
    /\ param_scale_types = Some(<<U8, U16>>)
    /\ Len(Get(data)) = 58

\* C4 as stated: an unrecognized hasher name anywhere in the declared list
\* makes generate() fail with UnknownHasher, whatever parameters are supplied.
C4_UnknownAnywhereFails ==
    ( /\ GenerateReported
      /\ Resolved
      /\ \E i \in 1..Len(DeclaredHashers) : Unrecognized(DeclaredHashers[i]) )
    => (UnknownHasher /\ data = None)

\* C4 amended: generate() fails with UnknownHasher exactly when the hasher
\* declared at the index of a supplied parameter is an unrecognized name and
\* every supplied parameter could be encoded; an unrecognized name at an index
\* beyond the supplied parameters is never looked at.  On that failure the
\* key bytes are still unset.
C4_UnknownHasherOfSuppliedParam ==
    (GenerateReported /\ Resolved) =>
        /\ UnknownHasher <=>
             ( /\ Encodable
               /\ \E i \in 1..Min(Len(Supplied), Len(DeclaredHashers)) :
                     Unrecognized(DeclaredHashers[i]) )
        /\ UnknownHasher => data = None

C4_Witness ==
    /\ GenerateReported
    /\ Resolved
    /\ UnknownHasher
    /\ Len(Supplied) = 2
    /\ Len(DeclaredHashers) = 2
    /\ Unrecognized(DeclaredHashers[2])
    /\ Len(params_encoded) = 2
    /\ data = None

\* C6 as stated: more parameters than declared hashers always fails with
\* MissingHasher, for native parameters too and whatever types are declared.
C6_SurplusAlwaysMissingHasher ==
    ( /\ GenerateReported
      /\ Resolved
      /\ Len(Supplied) > Len(DeclaredHashers)
      /\ \A i \in 1..Len(DeclaredHashers) : ~Unrecognized(DeclaredHashers[i]) )
    => MissingHasher

\* C6 amended: more parameters than declared hashers fails with MissingHasher
\* when every supplied parameter is pre-encoded or has a declared parameter
\* type at its index (a native parameter without one stops generate() earlier,
\* with an IndexError); the key bytes stay unset.  An empty hasher slot is no
\* MissingHasher: the parameter is hashed with Twox128.
C6_MissingHasher ==
    (GenerateReported /\ Resolved) =>
        /\ ( /\ Len(Supplied) > Len(DeclaredHashers)
             /\ \A i \in 1..Len(DeclaredHashers) : ~Unrecognized(DeclaredHashers[i]) )
           => IF Encodable THEN MissingHasher /\ data = None
              ELSE result.raised /\ result.exc = "IndexError" /\ data = None
        /\ ( /\ Len(Supplied) <= Len(DeclaredHashers)
             /\ Encodable
             /\ \A i \in 1..Len(Supplied) : ~Unrecognized(DeclaredHashers[i]) )
           => /\ ~result.raised
              /\ \A i \in 1..Len(Supplied) :
                    DeclaredHashers[i] = "" =>
                        \E at \in 0..Len(Get(data)) :
                            SubSeq(Get(data), at + 1, at + 16)
                                = Digest(1, 16, params_encoded[i])

C6_Witness ==
    /\ GenerateReported
    /\ Resolved
    /\ MissingHasher
    /\ Len(Supplied) = 2
    /\ Supplied[2][1] = "native"
    /\ Len(DeclaredHashers) = 1
    /\ Len(DeclaredTypes) = 2

C6_WitnessEmptySlot ==
    /\ GenerateReported
    /\ ~result.raised
    /\ Len(Supplied) = 2
    /\ DeclaredHashers = <<"Identity", "">>

\* C9: a generate() call on a descriptor whose key was already generated
\* succeeds, returns the same key bytes, and leaves every cached field
\* (encoded parameters, parameter types, hashers, value type, key bytes) as
\* the earlier call left it; the key is the one any descriptor built from the
\* same (pallet, storage function, params) and metadata gets.
C9_GenerateIdempotent ==
    [][ (generated /\ result'.op = "generate") =>
            /\ ~result'.raised
            /\ result'.value = Get(data)
            /\ fields' = fields
            /\ data' = KeyOf(metadata, Supplied) ]_vars

C9_Witness ==
    /\ result.op = "generate"
    /\ ~result.raised
    /\ Len(Supplied) = 2
    /\ Len(params_encoded) = 2
    /\ Supplied[1][1] = "native"

(* ===================== key-tail decoding claim ======================== *)
Reversible == {"Blake2_128Concat", "Twox64Concat", "Identity"}

\* the number of hash bytes in front of the parameter bytes
HashBytes(kind) ==
    IF kind = "Blake2_128Concat" THEN 16 ELSE IF kind = "Twox64Concat" THEN 8 ELSE 0

EncodedSize(t) == IF t = U8 THEN 1 ELSE 2

\* the parameter is a native value, or bytes of its type's size
ValidParams(ps) ==
    \A i \in 1..Len(ps) :
        ps[i][1] = "native" \/ Len(ps[i][2]) = EncodedSize(DeclaredTypes[i])

\* the value a parameter stands for
ParamValue(ps, i) ==
    IF ps[i][1] = "native" THEN <<"int", ps[i][2]>>
    ELSE IF DeclaredTypes[i] = U8 THEN <<"int", ps[i][2][1]>>
    ELSE <<"int", ps[i][2][1] + 256 * ps[i][2][2]>>

\* decode_key_data(hex of the key of ps, 0) was called on a descriptor that has
\* no parameters of its own, so that its key is the 32-byte prefix
TailDecoded(ps) ==
    /\ result.op = "decode_key_data"
    /\ Resolved
    /\ Len(Supplied) = 0
    /\ Len(ps) = Len(DeclaredTypes)
    /\ Len(ps) = Len(DeclaredHashers)
    /\ \A i \in 1..Len(ps) : ~Unrecognized(DeclaredHashers[i])
    /\ ValidParams(ps)
    /\ result.args = <<HexOf(ExpectedKeyOf(ps)), 0>>

\* C7: the key generate() makes for p_1..p_n, decoded from index 0 against the
\* 32-byte prefix, gives back p_1..p_n in order when every hasher is
\* Blake2_128Concat, Twox64Concat or Identity, each value preceded by the
\* block of its hash bytes; a hasher that does not concatenate contributes a
\* block of 0 bytes and the decoding does not fail.
C7_KeyTailRoundTrip ==
    \A ps \in [1..Len(DeclaredTypes) -> ParamValues] :
        TailDecoded(ps) =>
            /\ ~result.raised
            /\ Len(result.value[2]) = 2 * Len(ps)
            /\ \A i \in 1..Len(ps) :
                  /\ result.value[2][2 * i - 1][1] = "bytes"
                  /\ Len(result.value[2][2 * i - 1][2]) = HashBytes(DeclaredHashers[i])
            /\ (\A i \in 1..Len(ps) : DeclaredHashers[i] \in Reversible)
                  => \A i \in 1..Len(ps) : result.value[2][2 * i] = ParamValue(ps, i)

C7_Witness ==
    /\ TailDecoded(<<<<"native", 5>>, <<"ScaleBytes", <<9>>>>>>)
    /\ DeclaredHashers = <<"Blake2_128Concat", "Twox64Concat">>
    /\ DeclaredTypes = <<U16, U8>>
    /\ ~result.raised
    /\ result.value[2][2] = <<"int", 5>>
    /\ result.value[2][4] = <<"int", 9>>

(* ================= lifecycle and value decoding claims ================= *)
NotFound(msg) ==
    result.raised /\ result.exc = "StorageFunctionNotFound" /\ result.msg = msg

C8_KeyBytesNeverChange == [][data # None => data' = data]_vars

\* C8 amended: the key bytes, once non-null, change in one case only: the
\* first successful generate() on a descriptor made by create_from_data
\* replaces the raw bytes by the 32-byte key of (pallet, storage function).
\* After a generate() has succeeded they never change, and no resolved field
\* goes back to null.
C8_KeyBytesChangeOnlyByFirstGenerate ==
    [][ /\ (data # None /\ data' # data) =>
              /\ origin = "create_from_data"
              /\ ~generated
              /\ result'.op = "generate"
              /\ ~result'.raised
              /\ data' = Some(Digest(1, 16, StrEncode(metadata.prefix))
                                \o Digest(1, 16, StrEncode(metadata.function_name)))
        /\ generated => (generated' /\ data' = data)
        /\ created => created'
        /\ value_scale_type # None => value_scale_type' # None
        /\ param_scale_types # None => param_scale_types' # None
        /\ param_hashers # None => param_hashers' # None
        /\ metadata_storage_function # None => metadata_storage_function' # None ]_vars

C8_Witness ==
    /\ origin = "create_from_data"
    /\ generated
    /\ result.op = "to_hex"
    /\ Len(Get(data)) = 32

ValueDecoded == result.op = "decode_scale_value"

Absent == result.args[1] = None

\* the bytes the caller passed
GivenBytes ==
    LET given == result.args[1][2]
    IN  IF result.args[1][1] = "str"
        THEN [i \in 1..((Len(given) - 2) \div 2) |->
                16 * given[2 * i + 1] + given[2 * i + 2]]
        ELSE given

GivenWellFormed ==
    result.args[1][1] = "str" => Len(result.args[1][2]) % 2 = 0

\* bytes read as the plain type t; None when they are too few
Plain(t, b) ==
    IF t = U8 THEN (IF Len(b) >= 1 THEN Some(<<"int", b[1]>>) ELSE None)
    ELSE (IF Len(b) >= 2 THEN Some(<<"int", b[1] + 256 * b[2]>>) ELSE None)

\* bytes read as Option<t>
Optional(t, b) ==
    IF Len(b) = 0 THEN None
    ELSE IF b[1] = 0 THEN Some(<<"None">>)
    ELSE IF b[1] = 1 THEN Plain(t, Tail(b))
    ELSE None

\* the call gave the expected value with the flag, or failed when there is none
Outcome(expected, found) ==
    IF expected = None THEN result.raised
    ELSE /\ ~result.raised
         /\ result.value.value = Get(expected)
         /\ result.value.result_found = found

Declared == Get(metadata_storage_function)

\* C2 as stated: without raw bytes, a function with modifier Default gives its
\* default bytes decoded as the plain value type, with found = true.
C2_DefaultReportsFound ==
    (ValueDecoded /\ Absent /\ metadata_storage_function # None
        /\ Declared.modifier = "Default")
    => Outcome(Plain(Get(value_scale_type), Declared.default), TRUE)

\* C2 amended: without raw bytes, a function with modifier Default gives its
\* default bytes decoded as the plain value type (not as an Option), with
\* found = false: default bytes 0x2a as u8 give (42, found = false).
C2_DefaultReportsNotFound ==
    (ValueDecoded /\ Absent /\ metadata_storage_function # None
        /\ Declared.modifier = "Default")
    => /\ Outcome(Plain(Get(value_scale_type), Declared.default), FALSE)
       /\ (value_scale_type = Some(U8) /\ Declared.default = <<42>>)
            => result.value = [value |-> <<"int", 42>>, result_found |-> FALSE]

C2_Witness ==
    /\ ValueDecoded
    /\ Absent
    /\ metadata_storage_function # None
    /\ Declared.modifier = "Default"
    /\ Declared.default = <<42>>
    /\ value_scale_type = Some(U8)
    /\ result.value = [value |-> <<"int", 42>>, result_found |-> FALSE]

\* C3: without raw bytes, a function whose modifier is not Default gives its
\* default bytes decoded as Option<value type>, with found = false (0x00
\* gives None); raw bytes, when given, are decoded as the plain value type
\* with found = true whatever the modifier.
C3_OptionalAndPresent ==
    /\ (ValueDecoded /\ Absent /\ metadata_storage_function # None
          /\ Declared.modifier # "Default")
       => /\ Outcome(Optional(Get(value_scale_type), Declared.default), FALSE)
          /\ Declared.default = <<0>>
               => result.value = [value |-> <<"None">>, result_found |-> FALSE]
    /\ (ValueDecoded /\ ~Absent /\ GivenWellFormed /\ value_scale_type # None)
       => Outcome(Plain(Get(value_scale_type), GivenBytes), TRUE)

C3_Witness ==
    /\ ValueDecoded
    /\ Absent
    /\ metadata_storage_function # None
    /\ Declared.modifier = "Optional"
    /\ Declared.default = <<0>>
    /\ result.value = [value |-> <<"None">>, result_found |-> FALSE]

C3_WitnessPresent ==
    /\ ValueDecoded
    /\ ~Absent
    /\ metadata_storage_function # None
    /\ Declared.modifier = "Optional"
    /\ result.value = [value |-> <<"int", 11>>, result_found |-> TRUE]

FromData == origin = "create_from_data"

====
